---- MODULE Spec2Model ----
(***************************************************************************)
(* box2epub: a web novel (an index page plus one page per chapter) is      *)
(* downloaded and packaged as an EPUB.                                     *)
(*                                                                         *)
(*   src/src/main.rs            the pipeline: index fetch, index parsing,  *)
(*                              cover step, bounded chapter downloads,     *)
(*                              ordered extraction and packaging           *)
(*   src/src/extractor/boxn.rs  BoxnExtractor: extract_overview and        *)
(*                              extract_chapter as pure functions          *)
(*                                                                         *)
(* Text is modelled as a sequence of one-character strings, so that the    *)
(* regular expression of the chapter links is matched character by         *)
(* character, as the regex crate matches it (leftmost match, lazy          *)
(* quantifiers, '.' not matching a line break, the site interpolated into  *)
(* the pattern unescaped).                                                 *)
(***************************************************************************)
EXTENDS Integers, Sequences, FiniteSets, TLC

(***************************************************************************)
(* Bounds of the model.                                                    *)
(***************************************************************************)
\* Links of the index page the pipeline downloads (the chapter count N is
\* the number of them that are chapter links).
MaxLinks == 3
\* Links of the markup handed to BoxnExtractor::extract_overview.
MaxMarkupLinks == 2
\* num_cpus::get() ranges over 1..MaxCpus.
MaxCpus == 3

(***************************************************************************)
(* Text.                                                                   *)
(***************************************************************************)
None == <<"None">>

NL == "\n"
QUOTE == "\""

Min(S) == CHOOSE m \in S : \A o \in S : m <= o

RECURSIVE Reverse(_)
Reverse(s) == IF s = <<>> THEN <<>> ELSE Reverse(Tail(s)) \o <<Head(s)>>

RECURSIVE Concat(_)
Concat(ss) == IF ss = <<>> THEN <<>> ELSE Head(ss) \o Concat(Tail(ss))

IsSpace(c) == c \in {" ", NL, "\t"}

\* str::trim: leading and trailing white space removed.
RECURSIVE TrimStart(_)
TrimStart(s) ==
    IF s # <<>> /\ IsSpace(Head(s)) THEN TrimStart(Tail(s)) ELSE s

trim(s) == Reverse(TrimStart(Reverse(TrimStart(s))))

(***************************************************************************)
(* The chapter link pattern  <a.+?href="({site}.+?)".*?>                   *)
(***************************************************************************)
A_OPEN == <<"<", "a">>
HREF_EQ == <<"h", "r", "e", "f", "=", QUOTE>>

\* '.' of the pattern: any character but a line break (the chapter pattern
\* is built with Regex::new, without dot_matches_new_line).
Dot(c) == c # NL

DotRun(text, from, to) == \A k \in from..to : Dot(text[k])

LitAt(text, pos, lit) ==
    /\ pos + Len(lit) - 1 <= Len(text)
    /\ \A k \in 1..Len(lit) : text[pos + k - 1] = lit[k]

\* The site as a piece of the pattern: format!() interpolates it unescaped,
\* so its '.' is the pattern's '.', every other character of the modelled
\* sites is a literal.
SitePatAt(text, pos, site) ==
    /\ pos + Len(site) - 1 <= Len(text)
    /\ \A k \in 1..Len(site) :
          IF site[k] = "." THEN Dot(text[pos + k - 1])
                           ELSE text[pos + k - 1] = site[k]

\* Ends of the trailing  .*?>  after the closing quote at q.
GtAfter(text, q) ==
    {g \in (q + 1)..Len(text) : text[g] = ">" /\ DotRun(text, q + 1, g - 1)}

\* Closing quotes of a capture starting at c: {site} then .+? (one character
\* at least) then the quote.
CapEnds(text, site, c) ==
    {q \in (c + Len(site) + 1)..Len(text) :
        /\ text[q] = QUOTE
        /\ DotRun(text, c + Len(site), q - 1)
        /\ GtAfter(text, q) # {}}

\* Places of  href="  that complete a match begun by the  <a  at s.
HrefStarts(text, site, s) ==
    {h \in (s + 3)..Len(text) :
        /\ LitAt(text, h, HREF_EQ)
        /\ DotRun(text, s + 2, h - 1)
        /\ SitePatAt(text, h + Len(HREF_EQ), site)
        /\ CapEnds(text, site, h + Len(HREF_EQ)) # {}}

MatchStarts(text, site, from) ==
    {s \in from..Len(text) :
        LitAt(text, s, A_OPEN) /\ HrefStarts(text, site, s) # {}}

\* The match at s: lazy quantifiers take the shortest run that lets the rest
\* of the pattern match, left to right.
MatchAt(text, site, s) ==
    LET h == Min(HrefStarts(text, site, s))
        c == h + Len(HREF_EQ)
        q == Min(CapEnds(text, site, c))
        g == Min(GtAfter(text, q))
    IN  [start |-> s, cap_from |-> c, cap_to |-> q - 1, end |-> g]

\* Regex::captures_iter: the successive non-overlapping matches, in the
\* order of their place in the text.
RECURSIVE captures_iter(_, _, _)
captures_iter(text, site, from) ==
    LET S == MatchStarts(text, site, from)
    IN  IF S = {} THEN <<>>
        ELSE LET m == MatchAt(text, site, Min(S))
             IN  <<m>> \o captures_iter(text, site, m.end + 1)

\* capture.get(1).unwrap().as_str().to_string()
CaptureText(text, m) == SubSeq(text, m.cap_from, m.cap_to)

chapter_url_regex(text, site) ==
    LET ms == captures_iter(text, site, 1)
    IN  [i \in 1..Len(ms) |-> CaptureText(text, ms[i])]

(***************************************************************************)
(* Index markup.  The three regions read by HOME_TITLE_REGEX,              *)
(* HOME_AUTHOR_REGEX and HOME_IMAGE_REGEX are carried as the text their    *)
(* capture group yields (None: the pattern does not match); the links are  *)
(* carried as the text the chapter pattern scans.                          *)
(***************************************************************************)
Site == <<"s", ".", "c", "/">>
RawSites == {<<"s", ".", "c">>, Site, <<>>}

\* The href of a link of kind k at place p of the page:
\*   chapter  a page under the site, one per place
\*   off      a page of another site
\*   dot      another site whose name differs where the site has its '.'
\*   root     the site itself
Href(k, p) ==
    CASE k = "chapter" -> Site \o <<ToString(p)>>
      [] k = "off"     -> <<"o", ".", "c", "/", ToString(p)>>
      [] k = "dot"     -> <<"s", "x", "c", "/", ToString(p)>>
      [] k = "root"    -> Site

\* <a href="...">t</a>, followed by a line break or not.
LinkText(k, p, nl) ==
    A_OPEN \o <<" ">> \o HREF_EQ \o Href(k, p) \o <<QUOTE, ">", "t", "<", "/", "a", ">">>
    \o (IF nl THEN <<NL>> ELSE <<>>)

LinksText(links) ==
    Concat([p \in 1..Len(links) |-> LinkText(links[p].kind, p, links[p].nl)])

SeqsUpTo(S, n) == UNION {[1..k -> S] : k \in 0..n}

(***************************************************************************)
(* BoxnExtractor (src/src/extractor/boxn.rs).                              *)
(***************************************************************************)
HOME_TITLE_REGEX(html) == html.breadcrumb
HOME_AUTHOR_REGEX(html) == html.author_content
HOME_IMAGE_REGEX(html) == html.summary_image

\* (mutant of map_or: the capture is taken as it is, no fallback)
map_or_NoDefault(default, capture) == capture

\* Option::map_or on the capture of a region (boxn.rs 47-52, main.rs 122-129).
map_or(default, capture) == IF capture = None THEN default ELSE capture

\* (mutant of extract_overview: download_urls.reverse() left out)
extract_overview_unreversed(site, html) ==
    [title |-> trim(map_or(<<"no_title">>, HOME_TITLE_REGEX(html))),
     author |-> trim(map_or(<<"no_author">>, HOME_AUTHOR_REGEX(html))),
     img_url |-> IF HOME_IMAGE_REGEX(html) = None THEN None
                 ELSE trim(HOME_IMAGE_REGEX(html)),
     download_urls |-> chapter_url_regex(html.text, site)]

\* Lines 43-74.
extract_overview(site, html) ==
    [title |-> trim(map_or(<<"no_title">>, HOME_TITLE_REGEX(html))),
     author |-> trim(map_or(<<"no_author">>, HOME_AUTHOR_REGEX(html))),
     img_url |-> IF HOME_IMAGE_REGEX(html) = None THEN None
                 ELSE trim(HOME_IMAGE_REGEX(html)),
     download_urls |-> Reverse(chapter_url_regex(html.text, site))]

VARIABLES ex_pc, ex_links, ex_html, ex_overview

ex_vars == <<ex_pc, ex_links, ex_html, ex_overview>>

MarkupKinds == {"chapter", "off", "dot", "root"}
MarkupLinks == SeqsUpTo([kind : MarkupKinds, nl : BOOLEAN], MaxMarkupLinks)
Regions == {None, <<" ", "R", " ">>}

ExtractorInit ==
    /\ ex_pc = "input"
    /\ ex_links \in MarkupLinks
    /\ \E b \in Regions, a \in Regions, i \in Regions :
          ex_html = [kind |-> "page", breadcrumb |-> b, author_content |-> a,
                     summary_image |-> i, text |-> LinksText(ex_links)]
    /\ ex_overview = None

ExtractorIdle ==
    /\ ex_pc = "unused"
    /\ ex_links = <<>>
    /\ ex_html = None
    /\ ex_overview = None

ExtractOverview ==
    /\ ex_pc = "input"
    /\ ex_overview' = extract_overview(Site, ex_html)
    /\ ex_pc' = "overview"
    /\ UNCHANGED <<ex_links, ex_html>>

(***************************************************************************)
(* The pipeline (src/src/main.rs).                                         *)
(*                                                                         *)
(* main runs on one task; every chapter download is a task of its own      *)
(* (tokio::spawn) that runs concurrently with main.  The stream            *)
(* stream::iter(...).buffered(K) is lazy: a download task is spawned when  *)
(* for_each polls the stream and the queue of the stream holds fewer than  *)
(* K tasks.  The closure of for_each (unwrap, extract_chapter,             *)
(* sanitize_html, add_content) runs on main, between two polls.            *)
(***************************************************************************)
VARIABLES
    pc,             \* where main is
    failure,        \* why main returned Err or panicked ("none": it did not)
    site,           \* the argument, then the normalized site
    cpus,           \* num_cpus::get()
    home_html,      \* the index page
    title, author, image_url_opt, chapter_urls,
    pending,        \* what stream::iter has not yielded yet
    tasks,          \* the spawned download tasks, in the order of their spawn
    queue,          \* in_progress_queue of Buffered: task ids, oldest first
    count,          \* the counter of enumerate()
    item,           \* the (i, task) the closure of for_each is working on
    chapter,        \* extract_chapter's result
    chapter_body,   \* sanitize_html's result
    builder,        \* the calls made on the EpubBuilder, in order
    requests,       \* the GET requests issued
    stdout,         \* the lines printed
    output_file,    \* output.epub: "absent", "created" (empty) or "written"
    \* History, read by the properties only:
    index_links,    \* the links of the index page that was served
    cover_resp,     \* the response to the cover request
    extracted,      \* the tasks whose page extract_chapter has returned from
    sanitized,      \* the indices i sanitize_html was called for, in order
    released        \* the (i, task) pairs handed to add_content, in order

main_vars ==
    <<pc, failure, site, cpus, home_html, title, author, image_url_opt,
      chapter_urls, pending, tasks, queue, count, item, chapter, chapter_body,
      builder, requests, stdout, output_file, index_links, cover_resp,
      extracted, sanitized, released>>

vars == <<main_vars, ex_vars>>

MAX_PARALLEL == 8

\* A request that failed (reqwest::Error), and a body that could not be read.
Err == [kind |-> "err"]
BytesErr == <<"Err">>

(***************************************************************************)
(* The environment: what the network answers.                              *)
(***************************************************************************)
PageKinds == {"chapter", "off"}
PageLinks == SeqsUpTo([kind : PageKinds, nl : {TRUE}], MaxLinks)

\* The index pages whose links are l.
IndexPages(l) ==
    {[kind |-> "page", breadcrumb |-> b, author_content |-> a, summary_image |-> i,
      text |-> LinksText(l)] :
        b \in Regions, a \in Regions,
        i \in {None, <<" ", "i", ".", "p", "n", "g">>}}

\* A chapter page, as what the two selectors of extract_chapter find in it:
\* the text of its <title> and the inner markup of its div.text-left.
TitleOf(url) == <<"T">> \o url
InnerOf(url) == <<"B">> \o url \o <<"&nbsp;">>

ChapterPages(url) ==
    {[kind |-> "page", title |-> TitleOf(url), inner |-> InnerOf(url)],
     [kind |-> "page", title |-> None, inner |-> InnerOf(url)],
     [kind |-> "page", title |-> TitleOf(url), inner |-> None]}

\* The Content-Type of the cover response: absent, not visible ASCII, or a
\* mimetype.
Mimetypes == {"image/png", "image/jpeg", "image/gif"}
CoverResponses ==
    {Err}
    \cup {[kind |-> "response", content_type |-> "absent", bytes |-> <<"img">>]}
    \cup {[kind |-> "response", content_type |-> c, bytes |-> b] :
            c \in Mimetypes \cup {"not-ascii"}, b \in {<<"img">>, BytesErr}}

(***************************************************************************)
(* extract_chapter and sanitize_html.                                      *)
(***************************************************************************)
extract_chapter_panics(html) == html.title = None \/ html.inner = None

extract_chapter(html) ==
    [title |-> html.title,
     content |-> <<"<html><head><title>">> \o html.title
                 \o <<"</title></head><body>">> \o html.inner
                 \o <<"</body></html>">>]

\* str::replace("&nbsp;", "&#160;")
replace_nbsp(s) == [k \in 1..Len(s) |-> IF s[k] = "&nbsp;" THEN "&#160;" ELSE s[k]]

\* (mutant of sanitize_html: the markup is passed on as it was extracted)
sanitize_html_Skipped(html) == html

\* prettier's output is opaque: the input, marked as formatted.
sanitize_html(html) == replace_nbsp(<<"prettier">> \o html)

(***************************************************************************)
(* main.                                                                   *)
(***************************************************************************)
Running == pc \notin {"done", "error", "panicked"}

MainInit ==
    /\ pc = "normalize"
    /\ failure = "none"
    /\ site \in RawSites
    /\ cpus \in 1..MaxCpus
    /\ home_html = [kind |-> "none"]
    /\ title = None
    /\ author = None
    /\ image_url_opt = None
    /\ chapter_urls = <<>>
    /\ pending = <<>>
    /\ tasks = <<>>
    /\ queue = <<>>
    /\ count = 0
    /\ item = [kind |-> "none"]
    /\ chapter = [kind |-> "none"]
    /\ chapter_body = None
    /\ builder = <<>>
    /\ requests = {}
    /\ stdout = {}
    /\ output_file = "absent"
    /\ index_links = <<>>
    /\ cover_resp = [kind |-> "none"]
    /\ extracted = {}
    /\ sanitized = <<>>
    /\ released = <<>>

MainIdle ==
    /\ pc = "unused"
    /\ failure = "none"
    /\ site = Site
    /\ cpus = 1
    /\ home_html = [kind |-> "none"]
    /\ title = None
    /\ author = None
    /\ image_url_opt = None
    /\ chapter_urls = <<>>
    /\ pending = <<>>
    /\ tasks = <<>>
    /\ queue = <<>>
    /\ count = 0
    /\ item = [kind |-> "none"]
    /\ chapter = [kind |-> "none"]
    /\ chapter_body = None
    /\ builder = <<>>
    /\ requests = {}
    /\ stdout = {}
    /\ output_file = "absent"
    /\ index_links = <<>>
    /\ cover_resp = [kind |-> "none"]
    /\ extracted = {}
    /\ sanitized = <<>>
    /\ released = <<>>

Init == MainInit /\ ExtractorIdle

\* main returns Err (the ? operator) or panics (unwrap, expect).
Fails(how, why) == pc' = how /\ failure' = why

\* Lines 105-118.
normalize(raw_site) ==
    IF raw_site[Len(raw_site)] = "/" THEN raw_site ELSE raw_site \o <<"/">>

NormalizeSite ==
    /\ pc = "normalize"
    /\ IF site = <<>>
       THEN Fails("panicked", "argument") /\ UNCHANGED site
       ELSE site' = normalize(site) /\ pc' = "fetch_index" /\ UNCHANGED failure
    /\ UNCHANGED <<cpus, home_html, title, author, image_url_opt, chapter_urls,
                   pending, tasks, queue, count, item, chapter, chapter_body,
                   builder, requests, stdout, output_file,
                   index_links, sanitized, cover_resp, extracted, released, ex_vars>>

\* (mutant of AfterIndexFetch: the error of the index request is dropped)
AfterIndexFetch_Continue(resp) == "parse_index"

\* Line 120: the index request; send() or text() may fail.
AfterIndexFetch(resp) == IF resp = Err THEN "error" ELSE "parse_index"

FetchIndex ==
    /\ pc = "fetch_index"
    /\ requests' = requests \cup {[kind |-> "index", url |-> site]}
    /\ \E l \in PageLinks :
          \E resp \in {Err} \cup IndexPages(l) :
              /\ pc' = AfterIndexFetch(resp)
              /\ failure' = IF resp = Err THEN "index_fetch" ELSE "none"
              /\ home_html' = IF resp = Err THEN home_html ELSE resp
              /\ index_links' = IF resp = Err THEN <<>> ELSE l
    /\ UNCHANGED <<site, cpus, title, author, image_url_opt, chapter_urls,
                   pending, tasks, queue, count, item, chapter, chapter_body,
                   builder, stdout, output_file, cover_resp, extracted,
                   sanitized, released, ex_vars>>

\* (mutant of download_order: the urls are downloaded as they were captured)
download_order_NoRev(urls) == urls

\* Line 141: chapter_urls.iter().rev()
download_order(urls) == Reverse(urls)

\* Lines 122-149: the index page is parsed and the stream is built; nothing
\* is spawned yet.
ParseIndex ==
    /\ pc = "parse_index"
    /\ title' = trim(map_or(<<"box2epub">>, HOME_TITLE_REGEX(home_html)))
    /\ author' = trim(map_or(<<"box2epub">>, HOME_AUTHOR_REGEX(home_html)))
    /\ image_url_opt' = IF HOME_IMAGE_REGEX(home_html) = None THEN None
                        ELSE trim(HOME_IMAGE_REGEX(home_html))
    /\ chapter_urls' = chapter_url_regex(home_html.text, site)
    /\ pending' = download_order(chapter_urls')
    /\ pc' = "builder"
    /\ UNCHANGED <<failure, site, cpus, home_html, tasks, queue, count, item,
                   chapter, chapter_body, builder, requests, stdout,
                   output_file,
                   index_links, sanitized, cover_resp, extracted, released, ex_vars>>

\* (mutant of BufferedMax: one slot less than the minimum of the two)
BufferedMax_OneLess == (IF cpus < MAX_PARALLEL THEN cpus ELSE MAX_PARALLEL) - 1

\* buffered(std::cmp::min(MAX_PARALLEL, num_cpus::get()))
BufferedMax == IF cpus < MAX_PARALLEL THEN cpus ELSE MAX_PARALLEL

\* Lines 151-153.
BuilderMetadata ==
    /\ pc = "builder"
    /\ builder' = builder \o <<[call |-> "metadata", key |-> "author", value |-> author],
                               [call |-> "metadata", key |-> "title", value |-> title]>>
    /\ pc' = "cover"
    /\ UNCHANGED <<failure, site, cpus, home_html, title, author, image_url_opt,
                   chapter_urls, pending, tasks, queue, count, item, chapter,
                   chapter_body, requests, stdout, output_file,
                   index_links, sanitized, cover_resp, extracted, released, ex_vars>>

\* (mutant of CoverFile: every image mimetype is embedded)
CoverFile_AnyImage(mimetype) ==
    CASE mimetype = "image/png" -> "cover.png"
      [] mimetype = "image/jpeg" -> "cover.jpg"
      [] OTHER -> "cover.img"

\* Lines 162-168: the file name add_cover_image is called with ("none": the
\* mimetype is not supported and no cover is added).
CoverFile(mimetype) ==
    CASE mimetype = "image/png" -> "cover.png"
      [] mimetype = "image/jpeg" -> "cover.jpg"
      [] OTHER -> "none"

\* Lines 155-169: what main does with the answer to the cover request: where
\* it goes on, the failure it ends with, the calls it makes on the builder
\* and the lines it prints.
cover_image(resp) ==
    CASE resp.kind = "err" ->
           [pc |-> "error", failure |-> "cover_send", calls |-> <<>>, lines |-> {}]
      [] resp.kind = "response" /\ resp.content_type = "absent" ->
           [pc |-> "for_each", failure |-> "none", calls |-> <<>>, lines |-> {}]
      [] resp.kind = "response" /\ resp.content_type = "not-ascii" ->
           [pc |-> "panicked", failure |-> "cover_header", calls |-> <<>>, lines |-> {}]
      [] resp.kind = "response" /\ resp.content_type \in Mimetypes
            /\ resp.bytes = BytesErr ->
           [pc |-> "error", failure |-> "cover_bytes", calls |-> <<>>, lines |-> {}]
      [] resp.kind = "response" /\ resp.content_type \in Mimetypes
            /\ resp.bytes # BytesErr /\ CoverFile(resp.content_type) # "none" ->
           [pc |-> "for_each", failure |-> "none",
            calls |-> <<[call |-> "add_cover_image",
                         path |-> CoverFile(resp.content_type),
                         bytes |-> resp.bytes,
                         mimetype |-> resp.content_type]>>,
            lines |-> {}]
      [] resp.kind = "response" /\ resp.content_type \in Mimetypes
            /\ resp.bytes # BytesErr /\ CoverFile(resp.content_type) = "none" ->
           [pc |-> "for_each", failure |-> "none", calls |-> <<>>,
            lines |-> {<<"Cover photo mimetype not supported: ", resp.content_type>>}]

\* Lines 154-172: the cover step, then inline_toc.
CoverStep ==
    /\ pc = "cover"
    /\ IF image_url_opt = None
       THEN /\ pc' = "for_each"
            /\ builder' = Append(builder, [call |-> "inline_toc"])
            /\ UNCHANGED <<failure, requests, stdout, cover_resp>>
       ELSE /\ requests' = requests \cup {[kind |-> "cover", url |-> image_url_opt]}
            /\ \E resp \in CoverResponses :
                  LET out == cover_image(resp)
                  IN  /\ cover_resp' = resp
                      /\ pc' = out.pc
                      /\ failure' = out.failure
                      /\ stdout' = stdout \cup out.lines
                      /\ builder' = builder \o out.calls \o
                             (IF out.pc = "for_each"
                              THEN <<[call |-> "inline_toc"]>> ELSE <<>>)
    /\ UNCHANGED <<site, cpus, home_html, title, author, image_url_opt,
                   chapter_urls, pending, tasks, queue, count, item, chapter,
                   chapter_body, output_file, index_links, sanitized, extracted, released,
                   ex_vars>>

(***************************************************************************)
(* for_each over download_tasks.enumerate(): Buffered::poll_next first     *)
(* fills its queue from the underlying iterator (each item it takes is a   *)
(* tokio::spawn), then polls the oldest task of the queue.                 *)
(***************************************************************************)
\* (mutant of CanSpawn: the queue is filled to one more than its maximum)
CanSpawn_OffByOne == Len(queue) <= BufferedMax /\ pending # <<>>

\* (mutant of CanSpawn: every item of the iterator is spawned, no maximum)
CanSpawn_Unbounded == pending # <<>>

\* Buffered::poll_next: while in_progress_queue.len() < max, take the next
\* item of the underlying stream.
CanSpawn == Len(queue) < BufferedMax /\ pending # <<>>

\* (mutant of next_url: the iterator is consumed from its other end)
next_url_Back == pending[Len(pending)]

\* Line 143: the Map iterator over chapter_urls.iter().rev() hands out the
\* URLs from its front.
next_url == Head(pending)

\* (mutant of stream_polled: the tasks are spawned as the stream is built)
stream_polled_Eager == pc \in {"builder", "cover", "for_each"}

\* Lines 141-149 build a lazy stream: stream::iter, map and buffered spawn
\* nothing until the stream is polled, and only for_each (line 174) polls it.
stream_polled == pc = "for_each"

\* Lines 141-148, as Buffered takes one more item of the iterator.
Spawn ==
    /\ stream_polled
    /\ CanSpawn
    /\ tasks' = Append(tasks, [url |-> next_url, state |-> "spawned",
                               result |-> [kind |-> "none"]])
    /\ queue' = Append(queue, Len(tasks) + 1)
    /\ pending' = IF next_url = Head(pending)
                  THEN Tail(pending)
                  ELSE SubSeq(pending, 1, Len(pending) - 1)
    /\ UNCHANGED <<pc, failure, site, cpus, home_html, title, author,
                   image_url_opt, chapter_urls, count, item, chapter,
                   chapter_body, builder, requests, stdout, output_file,
                   index_links, sanitized, cover_resp, extracted, released, ex_vars>>

\* (mutant of NextReady: any finished task is yielded, as buffer_unordered)
NextReady_Unordered ==
    {t \in {queue[k] : k \in 1..Len(queue)} : tasks[t].state = "done"}

\* (mutant of NextReady: the newest task of the queue is yielded first)
NextReady_Newest ==
    IF tasks[queue[Len(queue)]].state = "done" THEN {queue[Len(queue)]} ELSE {}

\* The task Buffered yields next: the oldest of the queue, once it is done.
NextReady == IF tasks[Head(queue)].state = "done" THEN {Head(queue)} ELSE {}

\* Buffered yields a finished task, enumerate numbers it, and for_each calls
\* its closure with it.
Yield ==
    /\ pc = "for_each"
    /\ ~CanSpawn
    /\ queue # <<>>
    /\ \E t \in NextReady :
          /\ item' = [i |-> count, task |-> t, result |-> tasks[t].result]
          /\ queue' = SelectSeq(queue, LAMBDA q : q # t)
    /\ count' = count + 1
    /\ pc' = "extract"
    /\ UNCHANGED <<failure, site, cpus, home_html, title, author, image_url_opt,
                   chapter_urls, pending, tasks, chapter, chapter_body, builder,
                   requests, stdout, output_file,
                   index_links, sanitized, cover_resp, extracted, released, ex_vars>>

\* Lines 177-178: task.unwrap().unwrap(), then extract_chapter.
ExtractFailure(result) ==
    CASE result = Err -> "chapter_fetch"
      [] result # Err /\ extract_chapter_panics(result) /\ result.title = None -> "no_title"
      [] result # Err /\ extract_chapter_panics(result) /\ result.title # None -> "no_content"
      [] OTHER -> "none"

\* (mutant of AfterChapterFailure: a failed chapter ends the book there)
AfterChapterFailure_WriteSoFar == "create_file"

\* (mutant of AfterChapterFailure: a failed chapter is skipped)
AfterChapterFailure_Skip == "for_each"

\* unwrap and expect panic: the closure does not return, for_each is not
\* polled again.
AfterChapterFailure == "panicked"

Extract ==
    /\ pc = "extract"
    /\ IF ExtractFailure(item.result) # "none"
       THEN /\ Fails(AfterChapterFailure, ExtractFailure(item.result))
            /\ UNCHANGED <<chapter, extracted>>
       ELSE /\ chapter' = extract_chapter(item.result)
            /\ extracted' = extracted \cup {item.task}
            /\ pc' = "sanitize"
            /\ UNCHANGED failure
    /\ UNCHANGED <<site, cpus, home_html, title, author, image_url_opt,
                   chapter_urls, pending, tasks, queue, count, item,
                   chapter_body, builder, requests, stdout, output_file,
                   index_links, sanitized, cover_resp, released, ex_vars>>

\* Line 179: sanitize_html; the child process may fail to start or to answer,
\* and every such failure is an unwrap.
Sanitize ==
    /\ pc = "sanitize"
    /\ \/ /\ chapter_body' = sanitize_html(chapter.content)
          /\ pc' = "add_content"
          /\ UNCHANGED failure
       \/ Fails("panicked", "sanitize") /\ UNCHANGED chapter_body
    /\ sanitized' = Append(sanitized, item.i)
    /\ UNCHANGED <<site, cpus, home_html, title, author, image_url_opt,
                   chapter_urls, pending, tasks, queue, count, item, chapter,
                   builder, requests, stdout, output_file,
                   index_links, cover_resp, extracted, released, ex_vars>>

\* (mutant of EpubContent: the reference type is set on every chapter)
EpubContent_AlwaysText(i, body, chapter_title) ==
    [call |-> "add_content",
     path |-> "c" \o ToString(i) \o ".xhtml",
     body |-> body,
     title |-> chapter_title,
     reftype |-> "Text"]

\* Lines 180-190: EpubContent::new(format!("c{}.xhtml", i), body).title(..),
\* with reftype(ReferenceType::Text) on the first chapter.
EpubContent(i, body, chapter_title) ==
    [call |-> "add_content",
     path |-> "c" \o ToString(i) \o ".xhtml",
     body |-> body,
     title |-> chapter_title,
     reftype |-> IF i = 0 THEN "Text" ELSE "None"]

AddContent ==
    /\ pc = "add_content"
    /\ builder' = Append(builder, EpubContent(item.i, chapter_body, chapter.title))
    /\ released' = Append(released, [i |-> item.i, task |-> item.task])
    /\ pc' = "for_each"
    /\ UNCHANGED <<failure, site, cpus, home_html, title, author, image_url_opt,
                   chapter_urls, pending, tasks, queue, count, item, chapter,
                   chapter_body, requests, stdout, output_file, index_links, sanitized,
                   cover_resp, extracted, ex_vars>>

\* The stream is over: Buffered returns None when the queue is empty and the
\* iterator is exhausted.
StreamEnd ==
    /\ pc = "for_each"
    /\ pending = <<>>
    /\ queue = <<>>
    /\ pc' = "create_file"
    /\ UNCHANGED <<failure, site, cpus, home_html, title, author, image_url_opt,
                   chapter_urls, pending, tasks, queue, count, item, chapter,
                   chapter_body, builder, requests, stdout, output_file,
                   index_links, sanitized, cover_resp, extracted, released, ex_vars>>

\* Line 198.
CreateFile ==
    /\ pc = "create_file"
    /\ output_file' = "created"
    /\ pc' = "generate"
    /\ UNCHANGED <<failure, site, cpus, home_html, title, author, image_url_opt,
                   chapter_urls, pending, tasks, queue, count, item, chapter,
                   chapter_body, builder, requests, stdout,
                   index_links, sanitized, cover_resp, extracted, released, ex_vars>>

\* Lines 199-201.
Generate ==
    /\ pc = "generate"
    /\ builder' = Append(builder, [call |-> "generate"])
    /\ output_file' = "written"
    /\ pc' = "done"
    /\ UNCHANGED <<failure, site, cpus, home_html, title, author, image_url_opt,
                   chapter_urls, pending, tasks, queue, count, item, chapter,
                   chapter_body, requests, stdout,
                   index_links, sanitized, cover_resp, extracted, released, ex_vars>>

(***************************************************************************)
(* A download task (lines 144-147).  The runtime ends with main: a task    *)
(* takes no step once main has returned or panicked.                       *)
(***************************************************************************)
TaskStart(t) ==
    /\ Running
    /\ tasks[t].state = "spawned"
    /\ stdout' = stdout \cup {<<"Downloading ", tasks[t].url>>}
    /\ requests' = requests \cup {[kind |-> "chapter", url |-> tasks[t].url]}
    /\ tasks' = [tasks EXCEPT ![t].state = "inflight"]
    /\ UNCHANGED <<pc, failure, site, cpus, home_html, title, author,
                   image_url_opt, chapter_urls, pending, queue, count, item,
                   chapter, chapter_body, builder, output_file,
                   index_links, sanitized, cover_resp, extracted, released, ex_vars>>

TaskComplete(t) ==
    /\ Running
    /\ tasks[t].state = "inflight"
    /\ \E r \in {Err} \cup ChapterPages(tasks[t].url) :
          tasks' = [tasks EXCEPT ![t].state = "done", ![t].result = r]
    /\ UNCHANGED <<pc, failure, site, cpus, home_html, title, author,
                   image_url_opt, chapter_urls, pending, queue, count, item,
                   chapter, chapter_body, builder, requests, stdout,
                   output_file,
                   index_links, sanitized, cover_resp, extracted, released, ex_vars>>

Next ==
    \/ NormalizeSite
    \/ FetchIndex
    \/ ParseIndex
    \/ BuilderMetadata
    \/ CoverStep
    \/ Spawn
    \/ Yield
    \/ Extract
    \/ Sanitize
    \/ AddContent
    \/ StreamEnd
    \/ CreateFile
    \/ Generate
    \/ \E t \in 1..Len(tasks) : TaskStart(t)
    \/ \E t \in 1..Len(tasks) : TaskComplete(t)

Spec == Init /\ [][Next]_vars

\* The steps of lines 141-201: the stream of downloads, the closure of
\* for_each and the writing of the file.
PipelineStep ==
    \/ Spawn
    \/ Yield
    \/ Extract
    \/ Sanitize
    \/ AddContent
    \/ StreamEnd
    \/ CreateFile
    \/ Generate
    \/ \E t \in 1..Len(tasks) : TaskStart(t)
    \/ \E t \in 1..Len(tasks) : TaskComplete(t)

\* The tokio runtime runs main and every spawned task whenever they can take
\* a step, and a request that was sent is answered: once the stream is
\* polled the run does not stop while a step is possible.
SpecFair == Init /\ [][Next]_vars /\ WF_vars(PipelineStep)

ExtractorNext == ExtractOverview /\ UNCHANGED main_vars

InitExtractor == ExtractorInit /\ MainIdle

SpecExtractor == InitExtractor /\ [][ExtractorNext]_vars

(***************************************************************************)
(* Properties.                                                             *)
(***************************************************************************)
\* The chapter count.
N == Len(chapter_urls)

\* The chapters added to the builder, in the order of their add_content.
Contents == SelectSeq(builder, LAMBDA c : c.call = "add_content")

\* The download tasks that were spawned and have not finished.
Unfinished == {t \in 1..Len(tasks) : tasks[t].state # "done"}

\* main is inside the closure of for_each, working on a chapter.
InClosure == pc \in {"extract", "sanitize", "add_content"}

\* A download that failed, or a page extract_chapter cannot read.
FailedResult(r) ==
    \/ r.kind = "err"
    \/ r.kind = "page" /\ (r.title = None \/ r.inner = None)

ChapterFailed(t) == tasks[t].state = "done" /\ FailedResult(tasks[t].result)

ChapterFailures == {"chapter_fetch", "no_title", "no_content"}

ChapterPath(i) == "c" \o ToString(i) \o ".xhtml"

\* The hrefs of the links the chapter pattern matches when every link stands
\* on a line of its own: those under the site, and those the unescaped '.'
\* lets through.
RECURSIVE MatchingHrefs(_, _)
MatchingHrefs(links, p) ==
    IF p > Len(links) THEN <<>>
    ELSE (IF links[p].kind \in {"chapter", "dot"}
          THEN <<Href(links[p].kind, p)>> ELSE <<>>)
         \o MatchingHrefs(links, p + 1)

OwnLines(links) == \A p \in 1..Len(links) : links[p].nl

\* The page the site serves at url, complete.
GoodPage(url) == [kind |-> "page", title |-> TitleOf(url), inner |-> InnerOf(url)]

----------------------------------------------------------------------------
\* C1: whatever the order in which the downloads complete, the chapters
\* handed to add_content are the tasks in the order of their spawn, numbered
\* 0, 1, 2, ... without a gap or a repetition: a finished download is never
\* released before an earlier one; a run that ends normally has released all
\* N chapters.
C1_ReleasedInIndexOrder ==
    /\ \A p \in 1..Len(released) :
          released[p].i = p - 1 /\ released[p].task = p
    /\ Len(Contents) = Len(released)
    /\ Len(released) <= N
    /\ pc = "done" => Len(released) = N

\* The third download is done and held back: the second is still in flight,
\* and only the first chapter has been released.
C1_Witness ==
    /\ N = 3
    /\ Len(released) = 1
    /\ Len(tasks) = 3
    /\ tasks[3].state = "done"
    /\ tasks[2].state = "inflight"
    /\ C1_ReleasedInIndexOrder

\* C2: the downloads that are spawned and not finished, plus the chapter the
\* closure of for_each is working on, are never more than
\* K = min(MAX_PARALLEL, num_cpus::get()).
C2_AtMostKActive ==
    Cardinality(Unfinished) + (IF InClosure THEN 1 ELSE 0) <= BufferedMax

\* K units are active: one chapter in extraction and K - 1 downloads, with
\* more chapters waiting to be spawned.
C2_Witness ==
    /\ pc = "extract"
    /\ BufferedMax = 2
    /\ Cardinality(Unfinished) = 1
    /\ pending # <<>>

C4_ChapterFromItsUrl ==
    \E oldest_first \in {Reverse(MatchingHrefs(index_links, 1))} :
        /\ \A p \in 1..Len(Contents) :
              \E u \in {oldest_first[p]} :
                  /\ tasks[released[p].task].url = u
                  /\ tasks[released[p].task].result = GoodPage(u)
                  /\ Contents[p].path = ChapterPath(p - 1)
                  /\ Contents[p].title = TitleOf(u)
                  /\ Contents[p].body =
                        sanitize_html(extract_chapter(GoodPage(u)).content)
        /\ Len(Contents) <= Len(oldest_first)
        /\ pc = "done" => Len(Contents) = Len(oldest_first)

\* A book of three chapters downloaded two at a time.
C4_Witness ==
    /\ pc = "done"
    /\ BufferedMax = 2
    /\ Len(Contents) = 3
    /\ Contents[1].title = TitleOf(Site \o <<"3">>)
    /\ Contents[3].title = TitleOf(Site \o <<"1">>)

\* C5: extract_overview returns the captured urls in the reverse of the order
\* of their place in the markup (newest-first markup gives an oldest-first
\* list), as many as were captured and the same ones.
C5_OverviewOldestFirst ==
    ex_pc = "overview" =>
        LET caps == captures_iter(ex_html.text, Site, 1)
            out == ex_overview.download_urls
        IN  /\ Len(out) = Len(caps)
            /\ \A i \in 1..Len(out) :
                  out[i] = CaptureText(ex_html.text, caps[Len(caps) + 1 - i])
            /\ \A i, j \in 1..Len(caps) : i < j => caps[i].end < caps[j].start
            /\ OwnLines(ex_links) => out = Reverse(MatchingHrefs(ex_links, 1))

\* Two chapter links, each on its line: the second comes out first.
C5_Witness ==
    /\ ex_pc = "overview"
    /\ Len(ex_links) = 2
    /\ OwnLines(ex_links)
    /\ ex_overview.download_urls = <<Site \o <<"2">>, Site \o <<"1">>>>

\* C6 as stated: an index page without a chapter url ends the run with an
\* error, and output.epub is not written.
C6_ZeroChaptersIsFatal ==
    (/\ pc \notin {"normalize", "fetch_index", "parse_index"}
     /\ failure \notin {"argument", "index_fetch"}
     /\ chapter_urls = <<>>)
        => output_file = "absent" /\ pc # "done"

\* C7: when the index request fails main returns the error at once: no
\* download task was spawned, no request but the index request was issued,
\* no call was made on the builder and output.epub is not created.
C7_IndexFailureAborts ==
    failure = "index_fetch" =>
        /\ pc = "error"
        /\ tasks = <<>>
        /\ pending = <<>>
        /\ requests = {[kind |-> "index", url |-> site]}
        /\ builder = <<>>
        /\ output_file = "absent"

C7_Witness ==
    /\ failure = "index_fetch"
    /\ pc = "error"
    /\ requests # {}

\* C8 as stated: a cover request that fails does not end the run.
C8_CoverFailureIsNotFatal ==
    (\/ cover_resp.kind = "err"
     \/ cover_resp.kind = "response" /\ cover_resp.bytes = BytesErr)
        => pc # "error"

\* The cover was added to the builder.
CoverEmbedded == \E k \in 1..Len(builder) : builder[k].call = "add_cover_image"

\* The cover response was received, headers and body.
CoverReceived == cover_resp.kind = "response" /\ cover_resp.bytes # BytesErr

\* C9: of a cover response that was received, the cover is embedded exactly
\* when its Content-Type is image/png or image/jpeg (as cover.png, as
\* cover.jpg); with another mimetype no cover is embedded, a line is printed
\* and main goes on to the chapters without an error.
C9_CoverByMimetype ==
    /\ CoverEmbedded <=>
          (CoverReceived /\ cover_resp.content_type \in {"image/png", "image/jpeg"})
    /\ \A k \in 1..Len(builder) :
          builder[k].call = "add_cover_image" =>
              /\ builder[k].mimetype = cover_resp.content_type
              /\ builder[k].bytes = cover_resp.bytes
              /\ builder[k].path =
                    (IF cover_resp.content_type = "image/png"
                     THEN "cover.png" ELSE "cover.jpg")
    /\ (CoverReceived /\ cover_resp.content_type \in Mimetypes \ {"image/png", "image/jpeg"})
          => /\ <<"Cover photo mimetype not supported: ", cover_resp.content_type>>
                   \in stdout
             /\ pc \notin {"cover", "error"}
             /\ failure \notin {"cover_send", "cover_bytes", "cover_header"}

\* A gif cover: the book is written, with its chapters and without a cover.
C9_Witness ==
    /\ pc = "done"
    /\ CoverReceived
    /\ cover_resp.content_type = "image/gif"
    /\ ~CoverEmbedded
    /\ Len(Contents) = 2
    /\ output_file = "written"

\* C10: the builder receives the author and the title once each, before
\* anything else; the chapter released at index i is added as c{i}.xhtml, so
\* no two chapters share a name; the reference type of the first chapter is
\* set on the chapter of index 0 and on no other; generate is called once,
\* last, after all N chapters were added.
C10_PackagingProtocol ==
    /\ builder # <<>> =>
          /\ Len(builder) >= 2
          /\ builder[1] = [call |-> "metadata", key |-> "author", value |-> author]
          /\ builder[2] = [call |-> "metadata", key |-> "title", value |-> title]
    /\ \A k \in 3..Len(builder) : builder[k].call # "metadata"
    /\ \A p \in 1..Len(Contents) :
          /\ Contents[p].path = ChapterPath(released[p].i)
          /\ Contents[p].reftype = "Text" <=> released[p].i = 0
    /\ \A p, q \in 1..Len(Contents) :
          p # q => Contents[p].path # Contents[q].path
    /\ \A k \in 1..Len(builder) :
          builder[k].call = "generate" =>
              k = Len(builder) /\ Len(Contents) = N /\ pc = "done"
    /\ pc = "done" => builder[Len(builder)].call = "generate"

C10_Witness ==
    /\ pc = "done"
    /\ Len(Contents) = 3
    /\ Contents[1].reftype = "Text"
    /\ Contents[3].path = "c2.xhtml"

\* The index page was fetched and parsed.
Parsed ==
    /\ pc \notin {"unused", "normalize", "fetch_index", "parse_index"}
    /\ failure \notin {"argument", "index_fetch"}

ChapterRequests == {r \in requests : r.kind = "chapter"}

CoverFailures == {"cover_send", "cover_header", "cover_bytes"}

\* C11: an index page that lacks a region does not abort the run.  Without
\* the title region the title is a literal ("box2epub" in main, "no_title" in
\* the extractor), without the author region the author is a literal
\* ("box2epub", "no_author"), without the cover region the cover URL is None
\* and no cover is requested; a run that stops after such a page stops for a
\* chapter, never for the missing region.
C11_MissingRegionsFallBack ==
    Parsed =>
        /\ home_html.breadcrumb = None => title = <<"box2epub">>
        /\ home_html.author_content = None => author = <<"box2epub">>
        /\ home_html.summary_image = None =>
              /\ image_url_opt = None
              /\ cover_resp.kind = "none"
              /\ \A r \in requests : r.kind # "cover"
              /\ ~Running /\ pc # "done" =>
                    failure \in ChapterFailures \cup {"sanitize"}
        /\ failure \in ChapterFailures \cup CoverFailures \cup {"sanitize", "none"}
        /\ pc = "builder" =>
              \E overview \in {extract_overview(site, home_html)} :
                  /\ home_html.breadcrumb = None =>
                        overview.title = <<"no_title">>
                  /\ home_html.author_content = None =>
                        overview.author = <<"no_author">>
                  /\ home_html.summary_image = None =>
                        overview.img_url = None

C11_Witness ==
    /\ Parsed
    /\ home_html.breadcrumb = None
    /\ home_html.author_content = None
    /\ home_html.summary_image = None
    /\ Len(tasks) = 2
    /\ Cardinality(ChapterRequests) = 2

\* The download of task t has answered with a page extract_chapter can read.
Arrived(t) == tasks[t].state = "done" /\ ~FailedResult(tasks[t].result)

C13_SpawnedInListOrder ==
    Parsed =>
        /\ Len(tasks) + Len(pending) = N
        /\ \A t \in 1..Len(tasks) : tasks[t].url = Reverse(chapter_urls)[t]
        /\ \A p \in 1..Len(pending) :
              pending[p] = Reverse(chapter_urls)[Len(tasks) + p]
        /\ \A t, u \in 1..Len(tasks) : t # u => tasks[t].url # tasks[u].url
        /\ \A k \in 1..Len(queue) - 1 : queue[k] < queue[k + 1]
        /\ pc = "done" => Len(tasks) = N

C13_Witness ==
    /\ Len(tasks) = 3
    /\ tasks[3].state = "done"
    /\ tasks[2].state = "spawned"
    /\ tasks[1].state = "inflight"
    /\ tasks[1].url = chapter_urls[3]

\* C14: sanitize_html is called once per chapter, for the indices 0, 1, ...
\* in turn, each call after extract_chapter has returned for that chapter
\* and before its add_content; every chapter the builder holds is the
\* sanitizer's output (formatted, no &nbsp; left) for the extraction of its
\* own page, and a run that ends normally has sanitized all N.
C14_SanitizedOnceBeforeAdd ==
    /\ \A p \in 1..Len(sanitized) : sanitized[p] = p - 1 /\ p \in extracted
    /\ Len(released) <= Len(sanitized)
    /\ Len(sanitized) <= Len(released) + 1
    /\ pc = "add_content" => Len(sanitized) = Len(released) + 1
    /\ pc \in {"extract", "sanitize"} => Len(sanitized) = Len(released)
    /\ \A p \in 1..Len(Contents) :
          /\ Contents[p].body[1] = "prettier"
          /\ \A k \in 1..Len(Contents[p].body) : Contents[p].body[k] # "&nbsp;"
          /\ Contents[p].body =
                <<"prettier", "<html><head><title>">>
                \o TitleOf(tasks[p].url)
                \o <<"</title></head><body>", "B">> \o tasks[p].url
                \o <<"&#160;", "</body></html>">>
    /\ pc = "done" => Len(sanitized) = N

C14_Witness ==
    /\ pc = "add_content"
    /\ sanitized = <<0, 1, 2>>
    /\ Len(Contents) = 2
    /\ chapter_body[1] = "prettier"

\* output.epub was written with all N chapters, none left in the buffer.
Written ==
    /\ pc = "done"
    /\ output_file = "written"
    /\ Len(released) = N
    /\ queue = <<>>
    /\ pending = <<>>

\* The run has ended on a step that failed.
Aborted == pc \in {"error", "panicked"} /\ failure # "none"

\* C15: under fair scheduling every run that starts the downloads ends, and
\* it ends in one of two ways: a step has failed (a download, an extraction
\* or the sanitizer, each of which panics main), or the chapter of index N-1
\* was released, the stream is over and output.epub is written.  So a run
\* in which every download succeeds and no step fails always gets to the
\* written file; it never stays stuck with results held in the buffer,
\* whatever the order in which the downloads finish and whether or not K < N.
C15_EventuallyWritten == (pc = "for_each") ~> (Written \/ Aborted)

C15_Witness ==
    /\ Written
    /\ N = 3
    /\ BufferedMax = 2
    /\ Len(sanitized) = 3

HasPrefix(s, prefix) ==
    Len(s) >= Len(prefix) /\ SubSeq(s, 1, Len(prefix)) = prefix

\* C16 as stated: every url extract_overview collects starts with the site,
\* character for character, and the target of a link that does not start
\* with the site is not collected.
C16_CollectedUnderSite ==
    ex_pc = "overview" =>
        /\ \A k \in 1..Len(ex_overview.download_urls) :
              HasPrefix(ex_overview.download_urls[k], Site)
        /\ \A p \in 1..Len(ex_links) :
              ~HasPrefix(Href(ex_links[p].kind, p), Site) =>
                  \A k \in 1..Len(ex_overview.download_urls) :
                      ex_overview.download_urls[k] # Href(ex_links[p].kind, p)

\* The tasks that were spawned and whose chapter was not added yet.
Outstanding == {t \in 1..Len(tasks) : t > Len(released)}

\* The finished downloads that wait in the buffer behind an unfinished head.
HeldBack ==
    IF queue = <<>> \/ tasks[Head(queue)].state = "done" THEN {}
    ELSE {t \in {queue[k] : k \in 1..Len(queue)} : tasks[t].state = "done"}

\* C17: the tasks spawned and not yet released are the consecutive indices
\* that start at the next index to release, at most K of them: the buffer
\* holds consecutive tasks in order, preceded only by the chapter the closure
\* is working on; task j exists only once the chapters up to j-K were
\* released; and at most K-1 finished downloads wait behind an earlier one.
C17_WindowOfK ==
    /\ Cardinality(Outstanding) <= BufferedMax
    /\ Outstanding = (Len(released) + 1)..Len(tasks)
    /\ \A k \in 1..Len(queue) : queue[k] = count + k
    /\ Len(tasks) = count + Len(queue)
    /\ Len(released) <= count /\ count <= Len(released) + 1
    /\ \A j \in 1..Len(tasks) : Len(released) >= j - BufferedMax
    /\ Cardinality(HeldBack) <= BufferedMax - 1

C17_Witness ==
    /\ BufferedMax = 2
    /\ Len(released) = 1
    /\ queue = <<2, 3>>
    /\ HeldBack = {3}
    /\ tasks[2].state = "inflight"
    /\ pc = "for_each"

CoverStepDone ==
    /\ Parsed
    /\ pc \notin {"builder", "cover"}
    /\ failure \notin CoverFailures
    /\ \E k \in 1..Len(builder) : builder[k].call = "inline_toc"

\* C19: the requests come in three phases that do not overlap.  The cover
\* is requested only after the index page was received and parsed; a
\* download task is spawned, and a chapter requested, only after the cover
\* step is over (the whole cover response received, or no cover to fetch);
\* a run that ends in the argument, index or cover step has spawned no task
\* and requested no chapter.
C19_PhasesDoNotOverlap ==
    /\ (\E r \in requests : r.kind = "cover") =>
          Parsed /\ home_html.kind = "page" /\ image_url_opt # None
    /\ tasks # <<>> \/ ChapterRequests # {} \/ stdout # {} =>
          /\ CoverStepDone
          /\ (\E r \in requests : r.kind = "cover") =>
                cover_resp.kind = "response" /\ cover_resp.bytes # BytesErr
    /\ Cardinality(ChapterRequests) <= Len(tasks)
    /\ failure \in {"argument", "index_fetch"} \cup CoverFailures =>
          /\ tasks = <<>>
          /\ ChapterRequests = {}
          /\ stdout = {}
          /\ ~Running

C19_Witness ==
    /\ failure = "cover_bytes"
    /\ N = 2
    /\ tasks = <<>>
    /\ Cardinality(requests) = 2
    /\ ~Running

====
